---- MODULE Spec2Model ----
(***************************************************************************)
(* Model of src/conf_mode/interfaces-openvpn.py: the configuration         *)
(* pipeline get_config -> verify -> generate -> apply of one OpenVPN       *)
(* interface, run repeatedly against a persistent filesystem.              *)
(*                                                                         *)
(* A configuration is a record.  Optional leaf nodes are modelled by the   *)
(* value "none" (names), 0 (addresses, ports) or the empty sequence /      *)
(* set (multi nodes, tag nodes).  IPv4 addresses are their 32-bit integer  *)
(* values; IPv6 addresses are abstract integers of a disjoint range.       *)
(***************************************************************************)
EXTENDS Integers, Sequences, FiniteSets, TLC

VARIABLES
    pc,         \* position of the current invocation of __main__
    cfg,        \* the dictionary returned by get_config
    verr,       \* outcome of verify in the current invocation
    stages,     \* the functions __main__ has called so far in this invocation
    otp,        \* /config/auth/openvpn/<ifname>-otp-secrets
    ccd,        \* /run/openvpn/ccd/<ifname>
    files,      \* regular files /run/openvpn/<ifname><suffix>
    daemon,     \* state of openvpn@<ifname>.service
    iface,      \* whether the network interface object exists
    fs0         \* the filesystem as it was when the invocation started

vars == <<pc, cfg, verr, stages, otp, ccd, files, daemon, iface, fs0>>

(***************************************************************************)
(* Bounds of the model.                                                    *)
(***************************************************************************)
NumSecrets == 2

(***************************************************************************)
(* Module-level constants of the program.                                  *)
(***************************************************************************)
\* user = 'openvpn', as a text split at its spaces
user == <<"openvpn">>
group == "openvpn"
\* the secrets SystemRandom can draw, 16 characters of secret_chars
Secrets == 1..NumSecrets

MaxPoolSize == 65536
MinDhBits == 2048
MaxTunPrefix == 29
MaxTapPrefix == 30
V6PoolPrefixLimit == 112

(***************************************************************************)
(* The PKI snapshot.  A snapshot is the set of its sections; the names     *)
(* held in each section are fixed.                                         *)
(***************************************************************************)
PkiCA == {"ca1"}
PkiCertificate == {"rsa", "ec", "enc"}
PkiDH == {"dh2048", "dh1024"}
PkiSharedSecret == {"k1", "k2"}

DhBits(name) == IF name = "dh2048" THEN 2048 ELSE 1024

\* First element of a sequence of outcomes that is not "ok"
RECURSIVE FirstErr(_)
FirstErr(s) ==
    IF s = <<>> THEN "ok"
    ELSE IF Head(s) # "ok" THEN Head(s)
    ELSE FirstErr(Tail(s))

Chk(cond, err) == IF cond THEN err ELSE "ok"

\* every client name a configuration can use, in configuration (sorted) order
ClientOrder == <<"alice", "bob", "carol">>

\* the keys of the server.client dictionary in iteration order
KeysOf(S) == SelectSeq(ClientOrder, LAMBDA n : n \in S)

HasTls(c) ==
    \/ c.tls_ca # "none"
    \/ c.tls_cert # "none"
    \/ c.tls_dh # "none"
    \/ c.tls_auth_key # "none"
    \/ c.tls_crypt_key # "none"
    \/ c.tls_role # "none"

HasSharedSecretKey(c) == c.shared_secret_key # "none"

HasLocalAddress(c) == Len(c.la4) + Len(c.la6) > 0
HasRemoteAddress(c) == Len(c.ra4) + Len(c.ra6) > 0

is_ec_private_key(pki, cert_name) ==
    /\ "certificate" \in pki.sections
    /\ cert_name \in PkiCertificate
    /\ cert_name = "ec"

(***************************************************************************)
(* verify_pki                                                              *)
(***************************************************************************)
PkiTlsChecks(c) ==
    FirstErr(<<
        Chk(c.tls_ca = "none", "Must specify tls ca-certificate"),
        Chk("ca" \notin c.pki.sections, "KeyError"),
        Chk(c.tls_ca \notin PkiCA, "Invalid CA certificate"),
        Chk(~(c.mode = "client" /\ c.tls_auth_key # "none") /\ c.tls_cert = "none",
            "Missing tls certificate"),
        IF c.tls_cert # "none"
        THEN FirstErr(<<
                Chk("certificate" \notin c.pki.sections, "KeyError"),
                Chk(c.tls_cert \notin PkiCertificate, "Invalid certificate"),
                Chk(c.tls_cert = "enc", "Cannot use encrypted private key"),
                Chk(c.mode = "server" /\ c.tls_dh = "none"
                        /\ ~is_ec_private_key(c.pki, c.tls_cert),
                    "Must specify tls dh-params when not using EC keys in server mode") >>)
        ELSE "ok",
        IF c.tls_dh # "none"
        THEN FirstErr(<<
                Chk("dh" \notin c.pki.sections, "There are no DH parameters in PKI configuration"),
                Chk(c.tls_dh \notin PkiDH, "Invalid dh-params"),
                Chk(DhBits(c.tls_dh) < MinDhBits, "Minimum DH key-size is 2048 bits") >>)
        ELSE "ok",
        Chk((c.tls_auth_key # "none" \/ c.tls_crypt_key # "none")
                /\ "openvpn" \notin c.pki.sections,
            "There are no openvpn shared-secrets in PKI configuration"),
        Chk(c.tls_auth_key # "none" /\ c.tls_auth_key \notin PkiSharedSecret,
            "Invalid auth-key"),
        Chk(c.tls_crypt_key # "none" /\ c.tls_crypt_key \notin PkiSharedSecret,
            "Invalid crypt-key") >>)

\* mutation: the exclusive-or test of the two mechanisms is left out
verify_pki_no_xor(c) ==
    FirstErr(<<
        Chk(c.mode \in {"server", "client"} /\ ~HasTls(c),
            "Must specify tls for server and client modes"),
        Chk(c.pki.sections = {}, "PKI is not configured"),
        IF HasTls(c) THEN PkiTlsChecks(c) ELSE "ok" >>)

verify_pki(c) ==
    FirstErr(<<
        Chk(~(HasSharedSecretKey(c) /= HasTls(c)),
            "Must specify only one of shared-secret-key and tls"),
        Chk(c.mode \in {"server", "client"} /\ ~HasTls(c),
            "Must specify tls for server and client modes"),
        Chk(c.pki.sections = {}, "PKI is not configured"),
        IF HasSharedSecretKey(c)
        THEN FirstErr(<<
                Chk("openvpn" \notin c.pki.sections,
                    "There are no openvpn shared-secrets in PKI configuration"),
                Chk(c.shared_secret_key \notin PkiSharedSecret, "Invalid shared-secret") >>)
        ELSE "ok",
        IF HasTls(c) THEN PkiTlsChecks(c) ELSE "ok" >>)

(***************************************************************************)
(* verify                                                                  *)
(***************************************************************************)
Elems(s) == {s[i] : i \in 1..Len(s)}

InNetwork(ip, net) ==
    /\ net.net <= ip
    /\ ip <= net.net + 2^(32 - net.plen) - 1

\* dict_search('client', openvpn): the interface dictionary has no "client"
\* key (clients are kept under server.client), so the lookup yields None
\* and "or []" makes the loops over it empty
dict_search_client(c) == <<>>

\* dict_search('client_ipv6_pool.base', openvpn): likewise not a key of the
\* interface dictionary (the pool is kept under server.client_ipv6_pool)
dict_search_client_ipv6_pool_base(c) == 0

VerifyClient(c) ==
    FirstErr(<<
        Chk(c.local_port # 0, "Cannot specify local-port in client mode"),
        Chk(c.local_host # 0, "Cannot specify local-host in client mode"),
        Chk(c.remote_host = 0, "Must specify remote-host in client mode"),
        Chk(c.protocol = "tcp-passive", "Protocol tcp-passive is not valid in client mode"),
        Chk(c.tls_dh # "none", "Cannot specify tls dh-params in client mode") >>)

\* the block under "if 'remote_address' in openvpn"
VerifyRemoteAddress(c) ==
    FirstErr(<<
        Chk(Len(c.ra4) > 1, "Only one IPv4 remote-address can be specified"),
        Chk(Len(c.ra6) > 1, "Only one IPv6 remote-address can be specified"),
        Chk(~HasLocalAddress(c), "remote-address requires local-address"),
        Chk(c.la4 # <<>> /\ c.ra4 = <<>>, "IPv4 local-address requires IPv4 remote-address"),
        Chk(c.ra4 # <<>> /\ c.la4 = <<>>, "IPv4 remote-address requires IPv4 local-address"),
        Chk(c.la6 # <<>> /\ c.ra6 = <<>>, "IPv6 local-address requires IPv6 remote-address"),
        Chk(c.ra6 # <<>> /\ c.la6 = <<>>, "IPv6 remote-address requires IPv6 local-address"),
        Chk(c.la4 = c.ra4 \/ c.ra6 = c.ra4,
            "local-address and remote-address cannot be the same"),
        Chk(c.local_host # 0 /\ c.local_host \in Elems(c.la4 \o c.la6),
            "local-address cannot be the same as local-host"),
        Chk(c.remote_host # 0 /\ c.remote_host \in Elems(c.ra4 \o c.ra6),
            "remote-address and remote-host can not be the same") >>)

VerifySiteToSite(c) ==
    FirstErr(<<
        Chk(~HasLocalAddress(c) /\ ~c.is_bridge_member,
            "Must specify local-address or add interface to bridge"),
        \* openvpn['local_address'] is subscripted without a presence test
        Chk(~HasLocalAddress(c), "KeyError"),
        Chk(Len(c.la4) > 1, "Only one IPv4 local-address can be specified"),
        Chk(Len(c.la6) > 1, "Only one IPv6 local-address can be specified"),
        Chk(c.device_type = "tun" /\ ~HasRemoteAddress(c), "Must specify remote-address"),
        IF HasRemoteAddress(c) THEN VerifyRemoteAddress(c) ELSE "ok",
        Chk(c.device_type = "tap" /\ c.la4 # <<>> /\ ~c.la4_mask,
            "Must specify IPv4 subnet-mask for local-address"),
        Chk(c.ncp_ciphers, "NCP ciphers can only be used in client or server mode") >>)

VerifyNotSiteToSite(c) ==
    Chk(HasLocalAddress(c) \/ HasRemoteAddress(c),
        "Cannot specify local-address or remote-address in client/server or bridge mode")

\* the loop body of "for subnet in tmp" for one IPv4 subnet
VerifySubnet4(c, subnet) ==
    FirstErr(<<
        Chk(c.device_type = "tun" /\ subnet.plen > MaxTunPrefix,
            "Server subnets smaller than /29 with device type tun are not supported"),
        Chk(c.device_type = "tap" /\ subnet.plen > MaxTapPrefix,
            "Server subnets smaller than /30 with device type tap are not supported"),
        Chk(\E i \in 1..Len(dict_search_client(c)) :
                LET client == dict_search_client(c)[i]
                IN  client.ip # <<>> /\ ~InNetwork(client.ip[1], subnet),
            "Client IP not in server subnet") >>)

VerifyServerSubnet(c) ==
    IF Len(c.subnet4) + Len(c.subnet6) > 0
    THEN FirstErr(<<
            Chk(Len(c.subnet4) > 1, "Cannot specify more than 1 IPv4 server subnet"),
            Chk(Len(c.subnet6) > 1, "Cannot specify more than 1 IPv6 server subnet"),
            Chk(Len(c.subnet6) > 0 /\ Len(c.subnet4) = 0,
                "IPv6 server requires an IPv4 server subnet"),
            IF c.subnet4 # <<>> THEN VerifySubnet4(c, c.subnet4[1]) ELSE "ok" >>)
    ELSE Chk(~c.is_bridge_member,
             "Must specify server subnet or add interface to bridge in server mode")

VerifyServerClients(c) ==
    Chk(\E n \in c.clients : Len(c.client_ip[n]) > 1 \/ Len(c.client_ipv6_ip[n]) > 1,
        "Server client: cannot specify more than 1 IPv4 and 1 IPv6 IP")

\* v4PoolSize = int(v4PoolStop) - int(v4PoolStart)
v4PoolSize(c) == c.pool_stop - c.pool_start

\* mutation: the size limit is tested with > instead of >=
VerifyClientIpPoolOffByOne(c) ==
    IF c.has_pool
    THEN IF ~(c.pool_start # 0 /\ c.pool_stop # 0)
         THEN "Server client-ip-pool requires both start and stop addresses"
         ELSE FirstErr(<<
                Chk(c.pool_start > c.pool_stop,
                    "Server client-ip-pool start address is larger than stop address"),
                Chk(v4PoolSize(c) > MaxPoolSize, "Server client-ip-pool is too large") >>)
    ELSE "ok"

\* the block under "if dict_search('server.client_ip_pool', openvpn)"
VerifyClientIpPool(c) ==
    IF c.has_pool
    THEN IF ~(c.pool_start # 0 /\ c.pool_stop # 0)
         THEN "Server client-ip-pool requires both start and stop addresses"
         ELSE FirstErr(<<
                Chk(c.pool_start > c.pool_stop,
                    "Server client-ip-pool start address is larger than stop address"),
                Chk(v4PoolSize(c) >= MaxPoolSize, "Server client-ip-pool is too large") >>)
    ELSE "ok"

\* v6PoolSize: the address count of the IPv6 pool, 65536 for prefixes up to /96
v6PoolSize(c) ==
    IF c.server_ipv6_pool_prefixlen > 96
    THEN 2^(128 - c.server_ipv6_pool_prefixlen) - 1
    ELSE 65536

\* the loop "for subnet in server.subnet: if is_ipv6(subnet)"
VerifyClientIpv6Pool(c) ==
    IF c.subnet6 # <<>> /\ dict_search_client_ipv6_pool_base(c) # 0
    THEN FirstErr(<<
            Chk(~c.has_pool, "IPv6 server pool requires an IPv4 server pool"),
            Chk(dict_search_client_ipv6_pool_base(c) >= V6PoolPrefixLimit,
                "IPv6 server pool must be larger than /112"),
            \* IPv6Address(tmp): tmp carries the "/<prefix>" the test above split off
            "AddressValueError",
            Chk(c.server_ipv6_pool_prefixlen = 0, "KeyError"),
            Chk(v6PoolSize(c) < v4PoolSize(c),
                "IPv6 server pool must be at least as large as the IPv4 pool") >>)
    ELSE "ok"

\* lines 278-366: the server block up to the TOTP reconciliation
VerifyServer(c) ==
    FirstErr(<<
        Chk(c.protocol = "tcp-active", "Protocol tcp-active is not valid in server mode"),
        Chk(c.remote_port # 0, "Cannot specify remote-port in server mode"),
        Chk(c.remote_host # 0, "Cannot specify remote-host in server mode"),
        VerifyServerSubnet(c),
        VerifyServerClients(c),
        VerifyClientIpPool(c),
        VerifyClientIpv6Pool(c) >>)

\* lines 397-403: the else branch of the server block
VerifyNotServer(c) ==
    FirstErr(<<
        Chk(c.reject_unconfigured_clients,
            "Option reject-unconfigured-clients only supported in server mode"),
        Chk(c.replace_default_route /\ c.remote_host = 0,
            "Cannot set replace-default-route without remote-host") >>)

\* mutation: the auth key is demanded outside client and server mode
VerifyTlsRoleOutside(c) ==
    FirstErr(<<
        Chk(c.tls_auth_key # "none" /\ c.tls_crypt_key # "none",
            "TLS auth and crypt keys are mutually exclusive"),
        Chk(c.tls_role # "none" /\ c.mode \notin {"client", "server"}
                /\ c.tls_auth_key = "none",
            "Cannot specify tls role in client-server mode"),
        Chk(c.tls_role = "active" /\ c.protocol = "tcp-passive",
            "Cannot specify tcp-passive when tls role is active"),
        Chk(c.tls_role = "active" /\ c.tls_dh # "none",
            "Cannot specify tls dh-params when tls role is active"),
        Chk(c.tls_role = "passive" /\ c.protocol = "tcp-active",
            "Cannot specify tcp-active when tls role is passive"),
        Chk(c.tls_role = "passive" /\ c.tls_dh = "none",
            "Must specify tls dh-params when tls role is passive") >>)

\* lines 431-453: the block under "if 'tls' in openvpn"
VerifyTls(c) ==
    FirstErr(<<
        Chk(c.tls_auth_key # "none" /\ c.tls_crypt_key # "none",
            "TLS auth and crypt keys are mutually exclusive"),
        Chk(c.tls_role # "none" /\ c.mode \in {"client", "server"} /\ c.tls_auth_key = "none",
            "Cannot specify tls role in client-server mode"),
        Chk(c.tls_role = "active" /\ c.protocol = "tcp-passive",
            "Cannot specify tcp-passive when tls role is active"),
        Chk(c.tls_role = "active" /\ c.tls_dh # "none",
            "Cannot specify tls dh-params when tls role is active"),
        Chk(c.tls_role = "passive" /\ c.protocol = "tcp-active",
            "Cannot specify tcp-active when tls role is passive"),
        Chk(c.tls_role = "passive" /\ c.tls_dh = "none",
            "Must specify tls dh-params when tls role is passive") >>)

\* lines 410-478: the checks common to all modes
VerifyCommon(c) ==
    FirstErr(<<
        Chk(c.local_host # 0 /\ ~c.local_host_assigned,
            "local-host IP address not assigned to any interface"),
        Chk(c.protocol = "tcp-active" /\ c.local_port # 0,
            "Cannot specify local-port with tcp-active"),
        Chk(c.protocol = "tcp-active" /\ c.remote_host = 0,
            "Must specify remote-host with tcp-active"),
        Chk(HasSharedSecretKey(c) /\ c.cipher \in {"aes128gcm", "aes192gcm", "aes256gcm"},
            "GCM encryption with shared-secret-key not supported"),
        IF HasTls(c) THEN VerifyTls(c) ELSE "ok",
        verify_pki(c),
        Chk(c.auth_username /\ ~c.auth_password, "Password for authentication is missing"),
        Chk(c.auth_password /\ ~c.auth_username, "Username for authentication is missing"),
        Chk(~c.vrf_ok, "VRF does not exist") >>)

\* mutation: the test for the mode is left out
VerifyBeforeTotpNoMode(c) ==
    FirstErr(<<
        IF c.mode = "client" THEN VerifyClient(c)
        ELSE IF c.mode = "site-to-site" THEN VerifySiteToSite(c)
        ELSE VerifyNotSiteToSite(c),
        IF c.mode = "server" THEN VerifyServer(c) ELSE "ok" >>)

\* lines 183-366: everything verify checks before it touches the TOTP file
VerifyBeforeTotp(c) ==
    FirstErr(<<
        Chk(c.mode = "none", "Must specify OpenVPN operation mode!"),
        IF c.mode = "client" THEN VerifyClient(c)
        ELSE IF c.mode = "site-to-site" THEN VerifySiteToSite(c)
        ELSE VerifyNotSiteToSite(c),
        IF c.mode = "server" THEN VerifyServer(c) ELSE "ok" >>)

\* lines 397-478: everything verify checks after that point
VerifyAfterTotp(c) ==
    FirstErr(<<
        IF c.mode # "server" THEN VerifyNotServer(c) ELSE "ok",
        VerifyCommon(c) >>)

\* whether verify reaches "if dict_search('server.2fa.totp', openvpn)" and enters it
ReachesTotp(c) ==
    /\ ~c.deleted
    /\ VerifyBeforeTotp(c) = "ok"
    /\ c.mode = "server"
    /\ c.totp

\* the outcome of verify: "ok", the ConfigError raised, or another exception
verify(c) ==
    IF c.deleted
    THEN Chk(c.is_bridge_member, "Interface is a member of a bridge")
    ELSE FirstErr(<< VerifyBeforeTotp(c), VerifyAfterTotp(c) >>)

NotConfigError == {"KeyError", "NameError", "AddressValueError"}

(***************************************************************************)
(* The TOTP reconciliation of verify (lines 369-395)                       *)
(***************************************************************************)
\* the text of one line of the TOTP file, split at its spaces
LineText(line) == <<line.name, "otp", line.secret, "*">>

\* re.search('^' + client + ' ', text)
ReSearch(client, text) == Len(text) >= 2 /\ text[1] = client

\* line 380: the pattern is searched in the module-level name "user"
TotpMatch(client, ovpn_user) == ReSearch(client, user)

\* what the loop body writes to the temporary file for one client
TotpLinesFor(client, ovpn_users, fresh) ==
    LET kept == SelectSeq(ovpn_users, LAMBDA l : TotpMatch(client, l))
    IN  IF kept # <<>> THEN kept
        ELSE << [name |-> client, secret |-> fresh[client]] >>

\* mutation: the lines read are kept and a line is appended for every client
TotpRewriteAppend(clients, ovpn_users, fresh) ==
    ovpn_users \o [i \in 1..Len(clients) |->
                    [name |-> clients[i], secret |-> fresh[clients[i]]]]

RECURSIVE TotpRewrite(_, _, _)
\* the content of the temporary file after the loop over server.client
TotpRewrite(clients, ovpn_users, fresh) ==
    IF clients = <<>> THEN <<>>
    ELSE TotpLinesFor(Head(clients), ovpn_users, fresh)
            \o TotpRewrite(Tail(clients), ovpn_users, fresh)

\* the TOTP file after verify entered the 2fa block, with the secrets drawn
TotpReconcile(c, file, fresh) ==
    [exists |-> TRUE,
     lines  |-> TotpRewrite(KeysOf(c.clients), file.lines, fresh),
     owner  |-> user[1]]

(***************************************************************************)
(* generate_pki_files, generate, apply                                     *)
(***************************************************************************)
\* the paths generate_pki_files appends to "files", as suffixes of the
\* interface name; isList is FALSE for the None it returns without a PKI
generate_pki_files(c) ==
    IF c.pki.sections = {} THEN [isList |-> FALSE, paths |-> {}]
    ELSE [isList |-> TRUE,
          paths |->
            (IF HasSharedSecretKey(c) THEN {<<"_", "shared.key">>} ELSE {})
            \cup (IF c.tls_ca # "none" THEN {<<"_", "ca.pem">>} ELSE {})
            \cup (IF c.tls_ca # "none" /\ c.pki.crl THEN {<<"_", "crl.pem">>} ELSE {})
            \cup (IF c.tls_cert # "none"
                  THEN {<<"_", "cert.pem">>, <<"_", "cert.key">>} ELSE {})
            \cup (IF c.tls_dh # "none" THEN {<<"_", "dh.pem">>} ELSE {})
            \cup (IF c.tls_auth_key # "none" THEN {<<"_", "auth.key">>} ELSE {})
            \cup (IF c.tls_crypt_key # "none" THEN {<<"_", "crypt.key">>} ELSE {})]

cfg_file == <<".", "conf">>
auth_user_pass_file == <<".", "pw">>

\* glob('/run/openvpn/{interface}.*') applied to one file name
GlobMatches(f) == f[1] = "."

\* the outcome of generate: "ok", or the exception raised
GenerateOutcome(c) ==
    IF c.deleted \/ c.disable THEN "ok"
    ELSE IF ~generate_pki_files(c).isList THEN "TypeError"
    ELSE "ok"

\* files written by open(path, 'w'): a new file gets the default mode, an
\* existing one keeps its mode
WriteFiles(fl, written) ==
    [present |-> fl.present \cup written, mode600 |-> fl.mode600]

Chmod600(fl, paths) == [fl EXCEPT !.mode600 = @ \cup paths]

RemoveFiles(fl, paths) ==
    [present |-> fl.present \ paths, mode600 |-> fl.mode600 \ paths]

\* mutation: the per-peer directory is not cleared before it is refilled
GenerateCcdKeep(c, dir) ==
    IF c.deleted \/ c.disable THEN dir
    ELSE [exists |-> TRUE, frags |-> dir.frags \cup c.clients]

\* the per-peer directory after generate: removed with all it holds, then,
\* unless the interface is deleted or disabled, made again and filled
GenerateCcd(c, dir) ==
    LET cleared == IF dir.exists THEN [exists |-> FALSE, frags |-> {}] ELSE dir
    IN  IF c.deleted \/ c.disable THEN cleared
        ELSE [exists |-> TRUE, frags |-> cleared.frags \cup c.clients]

\* mutation: the paths of the TLS block are not collected for the loop
fix_permissions_shared_only(c) ==
    generate_pki_files(c).paths \cap {<<"_", "shared.key">>}

\* fix_permissions: the paths the loop of lines 634-635 hands to chmod_600
fix_permissions(c) == generate_pki_files(c).paths

\* /run/openvpn/<ifname>* after generate
GenerateFiles(c, fl) ==
    IF c.deleted \/ c.disable THEN fl
    ELSE LET pki == generate_pki_files(c).paths
             f1 == WriteFiles(fl, pki)
             f2 == IF c.auth_username \/ c.auth_password
                   THEN Chmod600(WriteFiles(f1, {auth_user_pass_file}), {auth_user_pass_file})
                   ELSE RemoveFiles(f1, {auth_user_pass_file})
             f3 == WriteFiles(f2, {cfg_file})
         IN  Chmod600(f3, fix_permissions(c))

\* /run/openvpn/<ifname>* after apply
ApplyFiles(c, fl) ==
    IF c.deleted \/ c.disable
    THEN RemoveFiles(fl, {f \in fl.present : GlobMatches(f)})
    ELSE fl

(***************************************************************************)
(* Configurations                                                          *)
(***************************************************************************)
ClientNames == Elems(ClientOrder)

\* int(IPv4Address('a.b.c.d'))
IPv4Address(a, b, c, d) == ((a * 256 + b) * 256 + c) * 256 + d

Net_10_8_0_0_24 == [net |-> IPv4Address(10, 8, 0, 0), plen |-> 24]

PkiFull == [sections |-> {"ca", "certificate", "dh", "openvpn"}, crl |-> FALSE]
PkiNone == [sections |-> {}, crl |-> FALSE]

\* a server on a tun device with one IPv4 subnet and TLS
BaseServer ==
    [deleted |-> FALSE, disable |-> FALSE, mode |-> "server",
     protocol |-> "udp", device_type |-> "tun",
     local_port |-> 0, local_host |-> 0, local_host_assigned |-> TRUE,
     remote_host |-> 0, remote_port |-> 0,
     la4 |-> <<>>, la6 |-> <<>>, la4_mask |-> FALSE, ra4 |-> <<>>, ra6 |-> <<>>,
     is_bridge_member |-> FALSE, ncp_ciphers |-> FALSE, cipher |-> "unset",
     subnet4 |-> <<Net_10_8_0_0_24>>, subnet6 |-> <<>>,
     clients |-> {}, client_ip |-> [n \in ClientNames |-> <<>>],
     client_ipv6_ip |-> [n \in ClientNames |-> <<>>],
     has_pool |-> FALSE, pool_start |-> 0, pool_stop |-> 0,
     server_ipv6_pool_prefixlen |-> 0, server_client_ipv6_pool_base |-> 0,
     totp |-> FALSE, reject_unconfigured_clients |-> FALSE,
     replace_default_route |-> FALSE,
     shared_secret_key |-> "none",
     tls_ca |-> "ca1", tls_cert |-> "rsa", tls_dh |-> "dh2048",
     tls_auth_key |-> "none", tls_crypt_key |-> "none", tls_role |-> "none",
     pki |-> PkiFull,
     auth_username |-> FALSE, auth_password |-> FALSE, vrf_ok |-> TRUE]

\* a client with TLS
BaseClient ==
    [BaseServer EXCEPT !.mode = "client", !.remote_host = 7, !.subnet4 = <<>>,
                       !.tls_dh = "none"]

\* a site-to-site tunnel with a pre-shared secret
BaseSiteToSite ==
    [BaseServer EXCEPT !.mode = "site-to-site", !.subnet4 = <<>>,
                       !.la4 = <<1>>, !.ra4 = <<2>>, !.remote_host = 7,
                       !.shared_secret_key = "k1",
                       !.tls_ca = "none", !.tls_cert = "none", !.tls_dh = "none"]

\* what get_interface_dict returns for a deleted interface: the name, the
\* deleted flag and the bridge membership; get_config adds no PKI to it
DeletedConfig(member) ==
    [BaseServer EXCEPT !.deleted = TRUE, !.mode = "none", !.subnet4 = <<>>,
                       !.tls_ca = "none", !.tls_cert = "none", !.tls_dh = "none",
                       !.pki = PkiNone, !.is_bridge_member = member]

\* the configurations of the pipeline runs: a server with or without 2FA,
\* clients and user/password authentication, a site-to-site tunnel, an
\* interface without mode or without PKI, and the deleted interface
PipelineConfigs ==
    {DeletedConfig(m) : m \in BOOLEAN}
    \cup {[BaseServer EXCEPT !.disable = d, !.totp = t, !.clients = cs,
                             !.auth_username = a[1], !.auth_password = a[2]] :
            d \in BOOLEAN, t \in BOOLEAN, cs \in SUBSET {"alice", "bob"},
            a \in {<<FALSE, FALSE>>, <<TRUE, TRUE>>, <<TRUE, FALSE>>}}
    \cup {[BaseSiteToSite EXCEPT !.disable = d, !.cipher = ci] :
            d \in BOOLEAN, ci \in {"unset", "aes256gcm"}}
    \cup {[BaseServer EXCEPT !.mode = "none", !.totp = t] : t \in BOOLEAN}
    \cup {[BaseServer EXCEPT !.pki = PkiNone, !.disable = d] : d \in BOOLEAN}
    \cup {[BaseServer EXCEPT !.vrf_ok = FALSE, !.totp = TRUE, !.clients = {"alice"}]}
    \cup {[BaseServer EXCEPT !.tls_auth_key = "k1", !.disable = d,
                             !.clients = {"alice"},
                             !.pki = [PkiFull EXCEPT !.crl = TRUE]] : d \in BOOLEAN}

(***************************************************************************)
(* __main__: one invocation per commit of the interface                    *)
(***************************************************************************)
\* mutation: the stage's exception is swallowed and the pipeline goes on
MainAfterSwallow(outcome, next) == next

\* where __main__ goes after a stage: on, to exit(1) on a ConfigError, or
\* out with the exception it does not catch
MainAfter(outcome, next) ==
    IF outcome = "ok" THEN next
    ELSE IF outcome \in NotConfigError THEN "crashed"
    ELSE "exit1"

Init ==
    /\ pc = "start"
    /\ cfg = DeletedConfig(FALSE)
    /\ verr = "none"
    /\ stages = <<>>
    /\ otp = [exists |-> FALSE, lines |-> <<>>, owner |-> "root"]
    /\ ccd = [exists |-> FALSE, frags |-> {}]
    /\ files = [present |-> {}, mode600 |-> {}]
    /\ daemon = "stopped"
    /\ iface = FALSE
    /\ fs0 = [otp |-> otp, ccd |-> ccd, files |-> files]

GetConfig(c) ==
    /\ pc = "start"
    /\ cfg' = c
    /\ pc' = "verify"
    /\ verr' = "none"
    /\ stages' = <<"get_config">>
    /\ fs0' = [otp |-> otp, ccd |-> ccd, files |-> files]
    /\ UNCHANGED <<otp, ccd, files, daemon, iface>>

Verify ==
    /\ pc = "verify"
    /\ stages' = Append(stages, "verify")
    /\ verr' = verify(cfg)
    /\ pc' = MainAfter(verify(cfg), "generate")
    /\ IF ReachesTotp(cfg)
       THEN \E fresh \in [cfg.clients -> Secrets] :
                otp' = TotpReconcile(cfg, otp, fresh)
       ELSE otp' = otp
    /\ UNCHANGED <<cfg, ccd, files, daemon, iface, fs0>>

Generate ==
    /\ pc = "generate"
    /\ stages' = Append(stages, "generate")
    /\ ccd' = GenerateCcd(cfg, ccd)
    /\ files' = GenerateFiles(cfg, files)
    /\ pc' = MainAfter(GenerateOutcome(cfg), "apply")
    /\ UNCHANGED <<cfg, verr, otp, daemon, iface, fs0>>

Apply ==
    /\ pc = "apply"
    /\ stages' = Append(stages, "apply")
    /\ files' = ApplyFiles(cfg, files)
    /\ daemon' = IF cfg.deleted \/ cfg.disable THEN "stopped" ELSE "running"
    /\ iface' = ~(cfg.deleted \/ cfg.disable)
    /\ pc' = "exit0"
    /\ UNCHANGED <<cfg, verr, otp, ccd, fs0>>

\* the process ends (exit status 0, exit(1), or the uncaught exception); its
\* dictionary is gone, the filesystem and the service stay for the next one
Exit ==
    /\ pc \in {"exit0", "exit1", "crashed"}
    /\ pc' = "start"
    /\ cfg' = DeletedConfig(FALSE)
    /\ verr' = "none"
    /\ stages' = <<>>
    /\ fs0' = [otp |-> otp, ccd |-> ccd, files |-> files]
    /\ UNCHANGED <<otp, ccd, files, daemon, iface>>

LoadPipeline == \E c \in PipelineConfigs : GetConfig(c)

Next == LoadPipeline \/ Verify \/ Generate \/ Apply \/ Exit

Spec == Init /\ [][Next]_vars

(***************************************************************************)
(* The configurations verify is checked on: every mode with the            *)
(* authentication fields varied, and a server with the address pool and    *)
(* the clients' addresses varied.                                          *)
(***************************************************************************)
AuthConfigs ==
    {[b EXCEPT !.shared_secret_key = sk, !.tls_ca = ca, !.tls_cert = ce,
               !.tls_dh = dh, !.tls_auth_key = ak, !.tls_role = ro,
               !.protocol = pr] :
        b \in {BaseServer, BaseClient, BaseSiteToSite},
        sk \in {"none", "k1"}, ca \in {"none", "ca1"}, ce \in {"none", "rsa", "ec"},
        dh \in {"none", "dh2048"}, ak \in {"none", "k1"},
        ro \in {"none", "active", "passive"},
        pr \in {"udp", "tcp-active", "tcp-passive"}}

PoolStarts == {0, IPv4Address(10, 0, 0, 10)}
PoolStops ==
    {0, IPv4Address(10, 0, 0, 9), IPv4Address(10, 0, 0, 20),
     IPv4Address(10, 1, 0, 9), IPv4Address(10, 1, 0, 10)}

PoolConfigs ==
    {BaseServer}
    \cup {[BaseServer EXCEPT !.has_pool = TRUE, !.pool_start = a, !.pool_stop = b,
                             !.subnet4 = sn] :
            a \in PoolStarts, b \in PoolStops,
            sn \in {<<Net_10_8_0_0_24>>, <<Net_10_8_0_0_24, Net_10_8_0_0_24>>}}

ClientIps ==
    {<<>>, <<IPv4Address(10, 8, 0, 5)>>, <<IPv4Address(10, 9, 0, 5)>>,
     <<IPv4Address(10, 8, 0, 5), IPv4Address(10, 8, 0, 6)>>}

ClientConfigs ==
    {[BaseServer EXCEPT !.clients = cs,
                        !.client_ip = [n \in ClientNames |->
                                         IF n \in cs THEN ip[n] ELSE <<>>]] :
        cs \in SUBSET {"alice", "bob"}, ip \in [{"alice", "bob"} -> ClientIps]}

\* site-to-site tunnels with the local and remote addresses varied; the
\* IPv4 addresses are 1 and 2, the IPv6 addresses 101 and 102
SiteConfigs ==
    {[BaseSiteToSite EXCEPT !.la4 = l4, !.la6 = l6, !.ra4 = r4, !.ra6 = r6,
                            !.la4_mask = mk, !.device_type = dt,
                            !.is_bridge_member = br, !.remote_host = rh] :
        l4 \in {<<>>, <<1>>, <<1, 2>>}, l6 \in {<<>>, <<101>>},
        r4 \in {<<>>, <<1>>, <<2>>}, r6 \in {<<>>, <<101>>, <<102>>, <<101, 102>>},
        mk \in BOOLEAN, dt \in {"tun", "tap"}, br \in BOOLEAN, rh \in {7, 2}}

\* servers with an IPv6 subnet, the base of server.client_ipv6_pool (its
\* prefix length) and the IPv4 pool varied
V6PoolConfigs ==
    {[BaseServer EXCEPT !.subnet6 = s6, !.server_client_ipv6_pool_base = b6,
                        !.has_pool = hp[1], !.pool_start = hp[2],
                        !.pool_stop = hp[3]] :
        s6 \in {<<>>, <<"fd00::/64">>}, b6 \in {0, 64, 112},
        hp \in {<<FALSE, 0, 0>>,
                <<TRUE, IPv4Address(10, 0, 0, 10), 0>>,
                <<TRUE, IPv4Address(10, 0, 0, 10), IPv4Address(10, 0, 0, 20)>>}}

VerifyConfigs ==
    AuthConfigs \cup PoolConfigs \cup ClientConfigs \cup {DeletedConfig(FALSE)}
        \cup SiteConfigs \cup V6PoolConfigs

LoadVerify == \E c \in VerifyConfigs : GetConfig(c)

NextVerify == LoadVerify \/ Verify \/ Generate \/ Apply \/ Exit

SpecVerify == Init /\ [][NextVerify]_vars

(***************************************************************************)
(* Properties                                                              *)
(***************************************************************************)
MainOrder == <<"get_config", "verify", "generate", "apply">>

Ran(stage) == stage \in Elems(stages)

\* the filesystem now
Fs == [otp |-> otp, ccd |-> ccd, files |-> files]

ModeRequired == "Must specify OpenVPN operation mode!"
RoleError == "Cannot specify tls role in client-server mode"
PoolErrors ==
    {"Server client-ip-pool requires both start and stop addresses",
     "Server client-ip-pool start address is larger than stop address",
     "Server client-ip-pool is too large"}

\* C1: the stages of a run are called in the order get_config, verify,
\* generate, apply; generate and apply have run only if verify returned
\* without raising, and apply only after generate
C1_StagesGated ==
    /\ Len(stages) <= Len(MainOrder)
    /\ stages = SubSeq(MainOrder, 1, Len(stages))
    /\ (Ran("generate") \/ Ran("apply")) => verr = "ok"

\* a run in which verify_pki raised: it ended after verify
C1_Witness ==
    /\ pc = "exit1"
    /\ verr = "PKI is not configured"
    /\ stages = <<"get_config", "verify">>

\* C2: whenever verify rejects a configuration, the filesystem is what it
\* was before the run
C2_RejectLeavesFilesystem ==
    (Ran("verify") /\ verr # "ok") => Fs = fs0

\* C3: an entry the TOTP file held for a client that server.client still
\* lists is in the file, with the same secret, after verify reconciled it
C3_TotpSecretsRetained ==
    (Ran("verify") /\ ReachesTotp(cfg)) =>
        \A i \in 1..Len(fs0.otp.lines) :
            fs0.otp.lines[i].name \in cfg.clients
                => fs0.otp.lines[i] \in Elems(otp.lines)

\* C4: after the run of a deleted or disabled configuration no runtime file
\* of the interface is left under /run/openvpn and the daemon is stopped
C4_DeletedLeavesNoRuntimeFile ==
    (pc = "exit0" /\ (cfg.deleted \/ cfg.disable)) =>
        /\ files.present = {}
        /\ daemon = "stopped"

\* C5: after generate returned, the fragments in ccd/<ifname> are exactly
\* the clients of the configuration, and the directory is absent when the
\* configuration is deleted or disabled
C5_FragmentsAreClients ==
    (Ran("generate") /\ pc \in {"apply", "exit0"}) =>
        IF cfg.deleted \/ cfg.disable
        THEN ~ccd.exists /\ ccd.frags = {}
        ELSE ccd.exists /\ ccd.frags = cfg.clients

\* generate returned for a configuration that dropped a client whose
\* fragment an earlier run had written
C5_Witness ==
    /\ pc = "apply"
    /\ ~cfg.disable /\ ~cfg.deleted
    /\ fs0.ccd.frags = {"alice", "bob"}
    /\ cfg.clients = {"alice"}

\* C6: a configuration that is not deleted and that verify accepts has
\* exactly one of shared_secret_key and tls, and has tls in client and
\* server mode
C6_OneAuthMechanism ==
    (Ran("verify") /\ verr = "ok" /\ ~cfg.deleted) =>
        /\ HasSharedSecretKey(cfg) /= HasTls(cfg)
        /\ cfg.mode \in {"client", "server"} => HasTls(cfg)

\* verify accepted a site-to-site configuration with TLS and no shared secret
C6_Witness ==
    /\ Ran("verify") /\ verr = "ok"
    /\ cfg.mode = "site-to-site"
    /\ HasTls(cfg) /\ ~HasSharedSecretKey(cfg)

\* C7 as stated: every configuration without a mode is rejected with the
\* mode-required error and the run writes no file
C7_NoModeRejected ==
    (Ran("verify") /\ cfg.mode = "none") =>
        /\ verr = ModeRequired
        /\ Fs = fs0

\* C7 amended: every configuration that is not marked deleted and has no
\* mode is rejected with the mode-required error, the run ends there and
\* has written no file
C7_NoModeRejectedUnlessDeleted ==
    (Ran("verify") /\ cfg.mode = "none" /\ ~cfg.deleted) =>
        /\ verr = ModeRequired
        /\ pc = "exit1"
        /\ Fs = fs0

\* a configuration with 2FA but without a mode was rejected
C7_Witness ==
    /\ pc = "exit1"
    /\ cfg.mode = "none" /\ ~cfg.deleted /\ cfg.totp
    /\ verr = ModeRequired

\* C8: a server configuration with a client whose ip lies outside the IPv4
\* server subnet is rejected by verify
C8_ClientOutsideSubnetRejected ==
    (/\ Ran("verify") /\ ~cfg.deleted /\ cfg.mode = "server"
     /\ cfg.subnet4 # <<>>
     /\ \E n \in cfg.clients :
            /\ cfg.client_ip[n] # <<>>
            /\ ~InNetwork(cfg.client_ip[n][1], cfg.subnet4[1]))
        => verr # "ok"

\* C9 as stated: a tls.role outside client and server mode is rejected
\* unless tls.auth_key is set, and in client or server mode a tls.role is
\* not rejected for the lack of an auth key
C9_RoleOutsideNeedsAuthKey ==
    (Ran("verify") /\ ~cfg.deleted /\ cfg.tls_role # "none") =>
        /\ (cfg.mode \notin {"client", "server", "none"} /\ cfg.tls_auth_key = "none")
                => verr # "ok"
        /\ cfg.mode \in {"client", "server"} => verr # RoleError

\* C9 amended: a tls.role in client or server mode is rejected unless
\* tls.auth_key is set, and the rejection for the lack of an auth key is
\* raised in no other case, so never in site-to-site mode
C9_RoleInsideNeedsAuthKey ==
    (Ran("verify") /\ ~cfg.deleted) =>
        /\ (cfg.tls_role # "none" /\ cfg.mode \in {"client", "server"}
                /\ cfg.tls_auth_key = "none") => verr # "ok"
        /\ verr = RoleError =>
                /\ cfg.tls_role # "none"
                /\ cfg.mode \in {"client", "server"}
                /\ cfg.tls_auth_key = "none"

\* a server with a tls.role and no auth key was rejected for it
C9_Witness ==
    /\ pc = "exit1"
    /\ cfg.mode = "server" /\ cfg.tls_role = "active" /\ cfg.tls_auth_key = "none"
    /\ verr = RoleError

\* verify reaches the test of server.client_ip_pool
ReachesPoolCheck(c) ==
    /\ ~c.deleted
    /\ c.mode = "server"
    /\ FirstErr(<< VerifyNotSiteToSite(c),
                   Chk(c.protocol = "tcp-active", "protocol"),
                   Chk(c.remote_port # 0, "remote-port"),
                   Chk(c.remote_host # 0, "remote-host"),
                   VerifyServerSubnet(c),
                   VerifyServerClients(c) >>) = "ok"

PoolValid(c) ==
    /\ c.pool_start # 0 /\ c.pool_stop # 0
    /\ c.pool_start <= c.pool_stop
    /\ c.pool_stop - c.pool_start < 65536

\* C10: the pool check rejects a configured pool exactly when start or stop
\* is missing, start > stop, or stop - start >= 65536; 10.0.0.10-10.0.0.20
\* has size 10
C10_PoolAccepted ==
    (Ran("verify") /\ cfg.has_pool) =>
        /\ verr \in PoolErrors => ReachesPoolCheck(cfg) /\ ~PoolValid(cfg)
        /\ (ReachesPoolCheck(cfg) /\ ~PoolValid(cfg)) => verr \in PoolErrors
        /\ (cfg.pool_start = IPv4Address(10, 0, 0, 10)
                /\ cfg.pool_stop = IPv4Address(10, 0, 0, 20)) => v4PoolSize(cfg) = 10

\* a pool with stop - start = 65535 passed verify
C10_Witness ==
    /\ Ran("verify") /\ verr = "ok"
    /\ cfg.has_pool
    /\ cfg.pool_stop - cfg.pool_start = 65535

\* the paths of the per-peer fragments of a configuration
FragmentPaths(c) == {<<"ccd/", n>> : n \in c.clients}

\* C11: after generate returned for a configuration that is neither deleted
\* nor disabled, generate_pki_files returned a list, every file it wrote is
\* there with mode 0600, and neither the daemon config nor a per-peer
\* fragment has been given mode 0600
C11_CredentialsOwnerOnly ==
    (Ran("generate") /\ ~cfg.deleted /\ ~cfg.disable) =>
        /\ generate_pki_files(cfg).isList
        /\ pc \in {"apply", "exit0"}
        /\ generate_pki_files(cfg).paths \subseteq files.present
        /\ generate_pki_files(cfg).paths \subseteq files.mode600
        /\ cfg_file \notin files.mode600
        /\ FragmentPaths(cfg) \cap files.mode600 = {}
        /\ files.mode600 \ fs0.files.mode600
                \subseteq generate_pki_files(cfg).paths \cup {auth_user_pass_file}

\* generate returned for a server with a CA, a CRL, a certificate with its
\* key, DH parameters, an auth key and a client
C11_Witness ==
    /\ pc = "apply"
    /\ ~cfg.disable
    /\ cfg.clients = {"alice"}
    /\ generate_pki_files(cfg).paths =
            {<<"_", "ca.pem">>, <<"_", "crl.pem">>, <<"_", "cert.pem">>,
             <<"_", "cert.key">>, <<"_", "dh.pem">>, <<"_", "auth.key">>}
    /\ cfg_file \in files.present

\* the user names of the lines of a TOTP file, in file order
OtpNames(file) == [i \in 1..Len(file.lines) |-> file.lines[i].name]

\* C12: after verify reconciled the TOTP file, the file holds one line for
\* each client of server.client, in their order, and no other line
C12_TotpFileIsClientList ==
    (Ran("verify") /\ ReachesTotp(cfg)) =>
        /\ otp.exists
        /\ OtpNames(otp) = KeysOf(cfg.clients)

\* verify reconciled a file that held alice and bob for a configuration
\* that lists alice only
C12_Witness ==
    /\ Ran("verify") /\ ReachesTotp(cfg)
    /\ Elems(OtpNames(fs0.otp)) = {"alice", "bob"}
    /\ cfg.clients = {"alice"}

SameAddressError == "local-address and remote-address cannot be the same"

\* verify reaches the comparison of the local with the remote addresses:
\* site-to-site, with a remote_address that passed the count and the
\* family-pairing checks
ReachesSameAddressCheck(c) ==
    /\ ~c.deleted /\ c.mode = "site-to-site"
    /\ HasLocalAddress(c) /\ HasRemoteAddress(c)
    /\ Len(c.la4) <= 1 /\ Len(c.la6) <= 1 /\ Len(c.ra4) <= 1 /\ Len(c.ra6) <= 1
    /\ (c.la4 = <<>>) = (c.ra4 = <<>>)
    /\ (c.la6 = <<>>) = (c.ra6 = <<>>)

\* C13: where verify reaches the comparison, it raises the "cannot be the
\* same" rejection exactly when a local address equals the remote address
\* of the same family
C13_SameAddressRejected ==
    (Ran("verify") /\ ReachesSameAddressCheck(cfg)) =>
        (verr = SameAddressError) =
            \/ cfg.la4 # <<>> /\ cfg.la4 = cfg.ra4
            \/ cfg.la6 # <<>> /\ cfg.la6 = cfg.ra6

\* C14: verify on a site-to-site configuration ends in acceptance or in a
\* ConfigError, and a bridge member without local_address is not rejected
\* for the missing local address
C14_BridgeMemberWithoutLocalAddress ==
    (Ran("verify") /\ ~cfg.deleted /\ cfg.mode = "site-to-site") =>
        /\ verr \notin NotConfigError
        /\ (cfg.is_bridge_member /\ ~HasLocalAddress(cfg)) =>
                verr # "Must specify local-address or add interface to bridge"

\* C15: a server with an IPv6 subnet and an IPv6 pool base, but without an
\* IPv4 pool that has start and stop, start <= stop and size < 65536, is
\* rejected by verify with a ConfigError
C15_V6PoolNeedsV4Pool ==
    (/\ Ran("verify") /\ ~cfg.deleted /\ cfg.mode = "server"
     /\ cfg.subnet6 # <<>>
     /\ cfg.server_client_ipv6_pool_base # 0
     /\ ~(cfg.has_pool /\ PoolValid(cfg)))
        => verr \notin {"ok"} \cup NotConfigError

====
